---- MODULE Spec2Model ----
(***************************************************************************)
(* Model of src/test1.cpp: a non-stationary k-armed bandit (Bandit), two   *)
(* epsilon-greedy agents (SampleAverageAgent, ConstantStepSizeAgent) and   *)
(* the experiment driver run_exp() called from main().                     *)
(*                                                                         *)
(* double values are modelled as exact rationals <<numerator, denominator>>*)
(* in lowest terms with a positive denominator; rounding of IEEE doubles   *)
(* is not modelled.  Every draw from the shared generator `gen` is a       *)
(* nondeterministic choice from a small set of outcomes.                   *)
(***************************************************************************)
EXTENDS Integers, Sequences, FiniteSets, TLC

(***************************************************************************)
(* Bounds of the model.                                                    *)
(***************************************************************************)
\* number of arms; the source fixes it to 10 (resize(10, ...), unif(0, 9))
K == 2
\* run_exp is explored for every num_runs, num_steps with
\* num_runs * num_steps <= MaxWork (the source fixes 2000 and 10000)
MaxWork == 2
\* calls of update() in the agent harness
MaxUpdates == 4
\* calls of random_walk() in the bandit harness
MaxWalks == 3

\* significant digits of operator<<(double) with the default stream precision
Precision == 6

Actions == 0..(K - 1)

(***************************************************************************)
(* Rational arithmetic (the model of double).                              *)
(***************************************************************************)
Abs(x) == IF x < 0 THEN -x ELSE x

RECURSIVE GCD(_, _)
GCD(a, b) == IF b = 0 THEN a ELSE GCD(b, a % b)

Rat(n, d) ==
  LET s == IF d < 0 THEN -1 ELSE 1
      g == GCD(Abs(n), Abs(d))
  IN  <<(s * n) \div g, (s * d) \div g>>

Zero == <<0, 1>>
One == <<1, 1>>
Hundred == <<100, 1>>
FromInt(n) == <<n, 1>>
FromBool(b) == IF b THEN One ELSE Zero

RatAdd(x, y) == Rat(x[1] * y[2] + y[1] * x[2], x[2] * y[2])
RatSub(x, y) == Rat(x[1] * y[2] - y[1] * x[2], x[2] * y[2])
RatMul(x, y) == Rat(x[1] * y[1], x[2] * y[2])
RatDiv(x, y) == Rat(x[1] * y[2], x[2] * y[1])
RatLess(x, y) == x[1] * y[2] < y[1] * x[2]

RECURSIVE Pow10(_)
Pow10(n) == IF n = 0 THEN 1 ELSE 10 * Pow10(n - 1)

\* x * 10^e for any integer e
Scale10(x, e) ==
  IF e >= 0
  THEN LET g == GCD(x[2], Pow10(e)) IN <<x[1] * (Pow10(e) \div g), x[2] \div g>>
  ELSE LET g == GCD(Abs(x[1]), Pow10(-e))
       IN  IF x[1] = 0 THEN Zero ELSE <<x[1] \div g, x[2] * (Pow10(-e) \div g)>>

(***************************************************************************)
(* Outcomes of the draws from gen.                                         *)
(***************************************************************************)
\* walk_noise(gen): normal_distribution(0.0, 0.01), in units of its deviation
WalkNoise == {Zero, One}
\* reward_noise(gen): normal_distribution(0.0, 1.0)
RewardNoise == {<<-1, 1>>, <<1, 3>>}
\* bernoulli_distribution(p)(gen): true with probability p
BernOutcomes(p) == IF p = One THEN {TRUE}
                   ELSE IF p = Zero THEN {FALSE}
                   ELSE BOOLEAN
\* uniform_int_distribution<int>(0, 9)(gen), scaled to the K arms
UnifOutcomes == 0..(K - 1)

(***************************************************************************)
(* std::max_element and the methods of the classes, as operators.          *)
(***************************************************************************)
RECURSIVE max_element_scan(_, _, _)
max_element_scan(v, largest, first) ==
  IF first = K THEN largest
  ELSE max_element_scan(v,
                        IF RatLess(v[largest], v[first]) THEN first ELSE largest,
                        first + 1)

\* index of the first largest element (distance(begin, max_element(...)))
max_element(v) == max_element_scan(v, 0, 1)

\* the last largest element instead of the first
RECURSIVE max_element_last_scan(_, _, _)
max_element_last_scan(v, largest, first) ==
  IF first = K THEN largest
  ELSE max_element_last_scan(v,
                        IF RatLess(v[first], v[largest]) THEN largest ELSE first,
                        first + 1)

Bandit_optimal_action_last(q) == max_element_last_scan(q, 0, 1)

Bandit_optimal_action(q) == max_element(q)

Bandit_random_walk(q, noise) == [a \in Actions |-> RatAdd(q[a], noise[a])]

Bandit_get_reward(q, action, noise) == RatAdd(q[action], noise)

Bandit_reset(q) == [a \in Actions |-> Zero]

\* the parameter given to bern in Agent::Agent
Agent_bern_p(eps) == RatSub(One, eps)

\* uniform draw over one index too many
Agent_choose_action_wide(Q, b, u) ==
  IF b THEN [action |-> u + 1, draws |-> <<"bern", "unif">>]
  ELSE [action |-> max_element(Q), draws |-> <<"bern">>]

\* uniform draw made before the bernoulli draw
Agent_choose_action_eager(Q, b, u) ==
  IF b THEN [action |-> u, draws |-> <<"unif", "bern">>]
  ELSE [action |-> max_element(Q), draws |-> <<"unif", "bern">>]

\* b: outcome of bern(gen); u: outcome of unif(gen), drawn only when b
Agent_choose_action(Q, b, u) ==
  IF b THEN [action |-> u, draws |-> <<"bern", "unif">>]
  ELSE [action |-> max_element(Q), draws |-> <<"bern">>]

Agent_reset(Q) == [a \in Actions |-> Zero]

\* the estimate is moved before the count is incremented
SampleAverageAgent_update_late(Q, counts, action, reward) ==
  LET d == IF counts[action] = 0 THEN 1 ELSE counts[action]
  IN  [Q |-> [Q EXCEPT ![action] =
               RatAdd(Q[action], RatDiv(RatSub(reward, Q[action]), FromInt(d)))],
       counts |-> [counts EXCEPT ![action] = counts[action] + 1]]

SampleAverageAgent_update(Q, counts, action, reward) ==
  LET c == [counts EXCEPT ![action] = counts[action] + 1]
  IN  [Q |-> [Q EXCEPT ![action] =
               RatAdd(Q[action],
                      RatDiv(RatSub(reward, Q[action]), FromInt(c[action])))],
       counts |-> c]

\* the override forgets the visitation counts
SampleAverageAgent_reset_base(Q, counts) ==
  [Q |-> Agent_reset(Q), counts |-> counts]

SampleAverageAgent_reset(Q, counts) ==
  [Q |-> Agent_reset(Q), counts |-> [a \in Actions |-> 0]]

alpha == <<1, 10>>

ConstantStepSizeAgent_update(Q, action, reward) ==
  [Q EXCEPT ![action] = RatAdd(Q[action], RatMul(alpha, RatSub(reward, Q[action])))]

(***************************************************************************)
(* operator<<(ostream&, double): the value denoted by the text printed     *)
(* with Precision significant digits (round half to even).                 *)
(***************************************************************************)
RoundHalfEven(x) ==
  LET fl == x[1] \div x[2]
      twice == 2 * (x[1] % x[2])
  IN  IF twice < x[2] THEN fl
      ELSE IF twice > x[2] THEN fl + 1
      ELSE IF fl % 2 = 0 THEN fl ELSE fl + 1

\* the decimal exponent e of m > 0: 10^e <= m < 10^(e+1)
Exponent10(m) ==
  CHOOSE e \in -6..6 :
    /\ ~RatLess(m, Scale10(One, e))
    /\ RatLess(m, Scale10(One, e + 1))

\* the stream inserter with the precision ignored
FormatDouble_exact(x) == x

FormatDouble(x) ==
  IF x[1] = 0 THEN Zero
  ELSE LET m == <<Abs(x[1]), x[2]>>
           e == Exponent10(m)
           digits == RoundHalfEven(Scale10(m, Precision - 1 - e))
           v == Scale10(FromInt(digits), e - (Precision - 1))
       IN  IF x[1] < 0 THEN <<-v[1], v[2]>> ELSE v

(***************************************************************************)
(* ofstream: state is "closed" before construction, "open" when the file   *)
(* was created, "fail" when it was not; insertions into a failed stream    *)
(* write nothing.                                                          *)
(***************************************************************************)
Header == "Step, SampleAverage, ConstantStepSize\n"

Stream_closed == [state |-> "closed", header |-> "", rows |-> <<>>]

ofstream_open(created) ==
  [state |-> IF created THEN "open" ELSE "fail", header |-> "", rows |-> <<>>]

Stream_write_header(f, h) ==
  IF f.state = "open" THEN [f EXCEPT !.header = h] ELSE f

Stream_write_row(f, idx, a, b) ==
  IF f.state = "open"
  THEN [f EXCEPT !.rows = Append(f.rows, <<idx, FormatDouble(a), FormatDouble(b)>>)]
  ELSE f

(***************************************************************************)
(* State.                                                                  *)
(***************************************************************************)
VARIABLES
  pc,            \* position in main / run_exp, or the harness in use
  num_runs,      \* run_exp: const int num_runs
  num_steps,     \* run_exp: const int num_steps
  run, step, i,  \* loop counters of run_exp
  q_true,        \* Bandit::q_true
  epsilon,       \* Agent::epsilon of sa_agent and css_agent
  sa_Q,          \* sa_agent.Q
  sa_counts,     \* sa_agent.counts
  css_Q,         \* css_agent.Q
  sa_rewards, css_rewards, sa_optimal, css_optimal,   \* accumulators
  optimal_action, sa_action, sa_reward, css_action, css_reward, \* loop locals
  reward_file, optimal_file,   \* the two ofstreams
  stdout,        \* text written to std::cout
  exit_status,   \* -1 while running, then the value main returns
  calls,         \* history: calls made in the current repetition
  draws,         \* history: draws from gen in the timestep under way
  q_walked,      \* history: q_true as left by the last random_walk
  samples,       \* history: one record for every accumulated sample
  hist,          \* harness history: rewards given to update() since reset
  explored,      \* harness history: the last choose_action took the bern branch
  ops            \* harness history: names of the operations called

vars == <<pc, num_runs, num_steps, run, step, i, q_true, epsilon, sa_Q,
          sa_counts, css_Q, sa_rewards, css_rewards, sa_optimal, css_optimal,
          optimal_action, sa_action, sa_reward, css_action, css_reward,
          reward_file, optimal_file, stdout, exit_status, calls, draws,
          q_walked, samples, hist, explored, ops>>

banditVars == <<q_true>>
agentVars == <<epsilon, sa_Q, sa_counts, css_Q>>
accVars == <<sa_rewards, css_rewards, sa_optimal, css_optimal>>
localVars == <<optimal_action, sa_action, sa_reward, css_action, css_reward>>
ioVars == <<reward_file, optimal_file, stdout, exit_status>>
sizeVars == <<num_runs, num_steps>>
harnessVars == <<hist, explored, ops>>

NoAction == -1
ZeroVec == [a \in Actions |-> Zero]
Steps == 0..(num_steps - 1)

\* the objects as their constructors leave them, with exploration eps
Constructed(eps) ==
  /\ q_true = ZeroVec
  /\ epsilon = [sa |-> eps, css |-> eps]
  /\ sa_Q = ZeroVec
  /\ sa_counts = [a \in Actions |-> 0]
  /\ css_Q = ZeroVec

Idle ==
  /\ run = 0 /\ step = 0 /\ i = 0
  /\ optimal_action = NoAction
  /\ sa_action = NoAction /\ sa_reward = Zero
  /\ css_action = NoAction /\ css_reward = Zero
  /\ reward_file = Stream_closed /\ optimal_file = Stream_closed
  /\ stdout = <<>> /\ exit_status = -1
  /\ calls = <<>> /\ draws = <<>> /\ q_walked = ZeroVec /\ samples = <<>>
  /\ hist = [a \in Actions |-> <<>>] /\ explored = FALSE /\ ops = <<>>

\* main() has entered run_exp(): lines 104-114
Init ==
  /\ pc = "for_run"
  /\ num_runs \in 1..MaxWork
  /\ num_steps \in 1..MaxWork
  /\ num_runs * num_steps <= MaxWork
  /\ Constructed(<<1, 10>>)
  /\ sa_rewards = [t \in Steps |-> Zero]
  /\ css_rewards = [t \in Steps |-> Zero]
  /\ sa_optimal = [t \in Steps |-> Zero]
  /\ css_optimal = [t \in Steps |-> Zero]
  /\ Idle

(***************************************************************************)
(* run_exp, statement by statement.                                        *)
(***************************************************************************)
Call(name) == Append(calls, <<name, step>>)

\* for (int run = 0; run < num_runs; ++run)
ForRun ==
  /\ pc = "for_run"
  /\ IF run < num_runs
     THEN /\ pc' = "bandit_reset"
          /\ calls' = <<>>
     ELSE /\ pc' = "normalize"
          /\ UNCHANGED calls
  /\ UNCHANGED <<run, step, i, banditVars, agentVars, accVars, localVars,
                 ioVars, sizeVars, harnessVars, draws, q_walked, samples>>

BanditReset ==
  /\ pc = "bandit_reset"
  /\ q_true' = Bandit_reset(q_true)
  /\ q_walked' = ZeroVec
  /\ calls' = Append(calls, <<"bandit.reset", -1>>)
  /\ pc' = "sa_reset"
  /\ UNCHANGED <<run, step, i, agentVars, accVars, localVars, ioVars,
                 sizeVars, harnessVars, draws, samples>>

SaReset ==
  /\ pc = "sa_reset"
  /\ LET r == SampleAverageAgent_reset(sa_Q, sa_counts)
     IN  sa_Q' = r.Q /\ sa_counts' = r.counts
  /\ calls' = Append(calls, <<"sa.reset", -1>>)
  /\ pc' = "css_reset"
  /\ UNCHANGED <<run, step, i, banditVars, epsilon, css_Q, accVars, localVars,
                 ioVars, sizeVars, harnessVars, draws, q_walked, samples>>

\* css_agent.reset(), then int step = 0
CssReset ==
  /\ pc = "css_reset"
  /\ css_Q' = Agent_reset(css_Q)
  /\ calls' = Append(calls, <<"css.reset", -1>>)
  /\ step' = 0
  /\ pc' = "for_step"
  /\ UNCHANGED <<run, i, banditVars, epsilon, sa_Q, sa_counts, accVars,
                 localVars, ioVars, sizeVars, harnessVars, draws, q_walked,
                 samples>>

\* for (...; step < num_steps; ...); when the inner loop ends, the scope of
\* step ends and the outer loop does ++run
ForStep ==
  /\ pc = "for_step"
  /\ IF step < num_steps
     THEN /\ pc' = "random_walk"
          /\ UNCHANGED <<run, step>>
     ELSE /\ pc' = "for_run"
          /\ run' = run + 1
          /\ step' = 0
  /\ UNCHANGED <<i, banditVars, agentVars, accVars, localVars, ioVars,
                 sizeVars, harnessVars, calls, draws, q_walked, samples>>

\* the walk goes straight to the first choose_action, recording no best action
RandomWalk_no_record ==
  /\ pc = "random_walk"
  /\ \E noise \in [Actions -> WalkNoise] :
       /\ q_true' = Bandit_random_walk(q_true, noise)
       /\ q_walked' = Bandit_random_walk(q_true, noise)
  /\ draws' = draws \o [n \in 1..K |-> [kind |-> "walk", by |-> "bandit"]]
  /\ calls' = Call("random_walk")
  /\ optimal_action' = 0
  /\ pc' = "sa_choose"
  /\ UNCHANGED <<run, step, i, agentVars, accVars, sa_action, sa_reward,
                 css_action, css_reward, ioVars, sizeVars, harnessVars, samples>>

RandomWalk ==
  /\ pc = "random_walk"
  /\ \E noise \in [Actions -> WalkNoise] :
       /\ q_true' = Bandit_random_walk(q_true, noise)
       /\ q_walked' = Bandit_random_walk(q_true, noise)
  /\ draws' = draws \o [n \in 1..K |-> [kind |-> "walk", by |-> "bandit"]]
  /\ calls' = Call("random_walk")
  /\ pc' = "optimal_action"
  /\ UNCHANGED <<run, step, i, agentVars, accVars, localVars, ioVars,
                 sizeVars, harnessVars, samples>>

OptimalAction ==
  /\ pc = "optimal_action"
  /\ optimal_action' = Bandit_optimal_action(q_true)
  /\ calls' = Call("optimal_action")
  /\ pc' = "sa_choose"
  /\ UNCHANGED <<run, step, i, banditVars, agentVars, accVars, sa_action,
                 sa_reward, css_action, css_reward, ioVars, sizeVars,
                 harnessVars, draws, q_walked, samples>>

Tag(kinds, who) == [n \in 1..Len(kinds) |-> [kind |-> kinds[n], by |-> who]]

SaChoose ==
  /\ pc = "sa_choose"
  /\ \E b \in BernOutcomes(Agent_bern_p(epsilon.sa)) :
       \E u \in IF b THEN UnifOutcomes ELSE {0} :
         LET c == Agent_choose_action(sa_Q, b, u)
         IN  /\ sa_action' = c.action
             /\ draws' = draws \o Tag(c.draws, "sa")
  /\ calls' = Call("sa.choose_action")
  /\ pc' = "sa_get_reward"
  /\ UNCHANGED <<run, step, i, banditVars, agentVars, accVars, optimal_action,
                 sa_reward, css_action, css_reward, ioVars, sizeVars,
                 harnessVars, q_walked, samples>>

SaGetReward ==
  /\ pc = "sa_get_reward"
  /\ \E noise \in RewardNoise :
       sa_reward' = Bandit_get_reward(q_true, sa_action, noise)
  /\ draws' = Append(draws, [kind |-> "reward", by |-> "sa"])
  /\ calls' = Call("sa.get_reward")
  /\ pc' = "sa_update"
  /\ UNCHANGED <<run, step, i, banditVars, agentVars, accVars, optimal_action,
                 sa_action, css_action, css_reward, ioVars, sizeVars,
                 harnessVars, q_walked, samples>>

SaUpdate ==
  /\ pc = "sa_update"
  /\ LET r == SampleAverageAgent_update(sa_Q, sa_counts, sa_action, sa_reward)
     IN  sa_Q' = r.Q /\ sa_counts' = r.counts
  /\ calls' = Call("sa.update")
  /\ pc' = "sa_accumulate"
  /\ UNCHANGED <<run, step, i, banditVars, epsilon, css_Q, accVars, localVars,
                 ioVars, sizeVars, harnessVars, draws, q_walked, samples>>

Sample(who, action, reward) ==
  [agent |-> who, run |-> run, step |-> step, action |-> action,
   reward |-> reward, best |-> optimal_action]

\* sa_rewards[step] += sa_reward; sa_optimal[step] += (sa_action == optimal_action)
SaAccumulate ==
  /\ pc = "sa_accumulate"
  /\ sa_rewards' = [sa_rewards EXCEPT ![step] = RatAdd(@, sa_reward)]
  /\ sa_optimal' = [sa_optimal EXCEPT
                      ![step] = RatAdd(@, FromBool(sa_action = optimal_action))]
  /\ samples' = Append(samples, Sample("sa", sa_action, sa_reward))
  /\ pc' = "css_choose"
  /\ UNCHANGED <<run, step, i, banditVars, agentVars, css_rewards, css_optimal,
                 localVars, ioVars, sizeVars, harnessVars, calls, draws,
                 q_walked>>

CssChoose ==
  /\ pc = "css_choose"
  /\ \E b \in BernOutcomes(Agent_bern_p(epsilon.css)) :
       \E u \in IF b THEN UnifOutcomes ELSE {0} :
         LET c == Agent_choose_action(css_Q, b, u)
         IN  /\ css_action' = c.action
             /\ draws' = draws \o Tag(c.draws, "css")
  /\ calls' = Call("css.choose_action")
  /\ pc' = "css_get_reward"
  /\ UNCHANGED <<run, step, i, banditVars, agentVars, accVars, optimal_action,
                 sa_action, sa_reward, css_reward, ioVars, sizeVars,
                 harnessVars, q_walked, samples>>

CssGetReward ==
  /\ pc = "css_get_reward"
  /\ \E noise \in RewardNoise :
       css_reward' = Bandit_get_reward(q_true, css_action, noise)
  /\ draws' = Append(draws, [kind |-> "reward", by |-> "css"])
  /\ calls' = Call("css.get_reward")
  /\ pc' = "css_update"
  /\ UNCHANGED <<run, step, i, banditVars, agentVars, accVars, optimal_action,
                 sa_action, sa_reward, css_action, ioVars, sizeVars,
                 harnessVars, q_walked, samples>>

CssUpdate ==
  /\ pc = "css_update"
  /\ css_Q' = ConstantStepSizeAgent_update(css_Q, css_action, css_reward)
  /\ calls' = Call("css.update")
  /\ pc' = "css_accumulate"
  /\ UNCHANGED <<run, step, i, banditVars, epsilon, sa_Q, sa_counts, accVars,
                 localVars, ioVars, sizeVars, harnessVars, draws, q_walked,
                 samples>>

\* the last two statements of the loop body, the end of the scope of its
\* locals, and ++step
CssAccumulate ==
  /\ pc = "css_accumulate"
  /\ css_rewards' = [css_rewards EXCEPT ![step] = RatAdd(@, css_reward)]
  /\ css_optimal' = [css_optimal EXCEPT
                       ![step] = RatAdd(@, FromBool(css_action = optimal_action))]
  /\ samples' = Append(samples, Sample("css", css_action, css_reward))
  /\ optimal_action' = NoAction
  /\ sa_action' = NoAction /\ sa_reward' = Zero
  /\ css_action' = NoAction /\ css_reward' = Zero
  /\ step' = step + 1
  /\ draws' = <<>>
  /\ pc' = "for_step"
  /\ UNCHANGED <<run, i, banditVars, agentVars, sa_rewards, sa_optimal, ioVars,
                 sizeVars, harnessVars, calls, q_walked>>

\* the four transforms divide by the number of steps
Normalize_by_steps ==
  /\ pc = "normalize"
  /\ sa_rewards' = [t \in Steps |-> RatDiv(sa_rewards[t], FromInt(num_steps))]
  /\ css_rewards' = [t \in Steps |-> RatDiv(css_rewards[t], FromInt(num_steps))]
  /\ sa_optimal' = [t \in Steps |->
                      RatMul(RatDiv(sa_optimal[t], FromInt(num_steps)), Hundred)]
  /\ css_optimal' = [t \in Steps |->
                       RatMul(RatDiv(css_optimal[t], FromInt(num_steps)), Hundred)]
  /\ pc' = "open_files"
  /\ UNCHANGED <<run, step, i, banditVars, agentVars, localVars, ioVars,
                 sizeVars, harnessVars, calls, draws, q_walked, samples>>

\* the four transforms of lines 140-143
Normalize ==
  /\ pc = "normalize"
  /\ sa_rewards' = [t \in Steps |-> RatDiv(sa_rewards[t], FromInt(num_runs))]
  /\ css_rewards' = [t \in Steps |-> RatDiv(css_rewards[t], FromInt(num_runs))]
  /\ sa_optimal' = [t \in Steps |->
                      RatMul(RatDiv(sa_optimal[t], FromInt(num_runs)), Hundred)]
  /\ css_optimal' = [t \in Steps |->
                       RatMul(RatDiv(css_optimal[t], FromInt(num_runs)), Hundred)]
  /\ pc' = "open_files"
  /\ UNCHANGED <<run, step, i, banditVars, agentVars, localVars, ioVars,
                 sizeVars, harnessVars, calls, draws, q_walked, samples>>

\* the two ofstream constructors; either file may fail to be created
OpenFiles ==
  /\ pc = "open_files"
  /\ \E rc \in BOOLEAN, oc \in BOOLEAN :
       /\ reward_file' = ofstream_open(rc)
       /\ optimal_file' = ofstream_open(oc)
  /\ pc' = "write_header"
  /\ UNCHANGED <<run, step, i, banditVars, agentVars, accVars, localVars,
                 stdout, exit_status, sizeVars, harnessVars, calls, draws,
                 q_walked, samples>>

\* the two header insertions, then int i = 0
WriteHeader ==
  /\ pc = "write_header"
  /\ reward_file' = Stream_write_header(reward_file, Header)
  /\ optimal_file' = Stream_write_header(optimal_file, Header)
  /\ i' = 0
  /\ pc' = "for_i"
  /\ UNCHANGED <<run, step, banditVars, agentVars, accVars, localVars, stdout,
                 exit_status, sizeVars, harnessVars, calls, draws, q_walked,
                 samples>>

\* for (int i = 0; i < num_steps; ++i) with its body; run_exp returns after it
WriteRow ==
  /\ pc = "for_i"
  /\ IF i < num_steps
     THEN /\ reward_file' =
               Stream_write_row(reward_file, i, sa_rewards[i], css_rewards[i])
          /\ optimal_file' =
               Stream_write_row(optimal_file, i, sa_optimal[i], css_optimal[i])
          /\ i' = i + 1
          /\ pc' = "for_i"
     ELSE /\ pc' = "print"
          /\ UNCHANGED <<reward_file, optimal_file, i>>
  /\ UNCHANGED <<run, step, banditVars, agentVars, accVars, localVars, stdout,
                 exit_status, sizeVars, harnessVars, calls, draws, q_walked,
                 samples>>

\* main: std::cout << "1"; return 0;
MainPrintReturn ==
  /\ pc = "print"
  /\ stdout' = Append(stdout, "1")
  /\ exit_status' = 0
  /\ pc' = "done"
  /\ UNCHANGED <<run, step, i, banditVars, agentVars, accVars, localVars,
                 reward_file, optimal_file, sizeVars, harnessVars, calls,
                 draws, q_walked, samples>>

Next ==
  \/ ForRun \/ BanditReset \/ SaReset \/ CssReset \/ ForStep
  \/ RandomWalk \/ OptimalAction
  \/ SaChoose \/ SaGetReward \/ SaUpdate \/ SaAccumulate
  \/ CssChoose \/ CssGetReward \/ CssUpdate \/ CssAccumulate
  \/ Normalize \/ OpenFiles \/ WriteHeader \/ WriteRow \/ MainPrintReturn

Spec == Init /\ [][Next]_vars

(***************************************************************************)
(* Agent harness: the public methods of a SampleAverageAgent built with    *)
(* any exploration probability, called in any order.                       *)
(***************************************************************************)
Epsilons == {Zero, <<1, 10>>, One}
HarnessRewards == {<<-1, 1>>, <<1, 2>>, <<2, 1>>}

RECURSIVE TotalLen(_, _)
TotalLen(h, a) == IF a = K THEN 0 ELSE Len(h[a]) + TotalLen(h, a + 1)

InitAgent ==
  /\ pc = "agent_harness"
  /\ num_runs = 1 /\ num_steps = 1
  /\ \E eps \in Epsilons : Constructed(eps)
  /\ sa_rewards = [t \in Steps |-> Zero]
  /\ css_rewards = [t \in Steps |-> Zero]
  /\ sa_optimal = [t \in Steps |-> Zero]
  /\ css_optimal = [t \in Steps |-> Zero]
  /\ Idle

AgentFrame ==
  UNCHANGED <<pc, sizeVars, run, step, i, banditVars, epsilon, css_Q, accVars,
              optimal_action, sa_reward, css_action, css_reward, ioVars, calls,
              draws, q_walked, samples>>

AgentChoose ==
  /\ pc = "agent_harness"
  /\ \E b \in BernOutcomes(Agent_bern_p(epsilon.sa)) :
       \E u \in IF b THEN UnifOutcomes ELSE {0} :
         /\ sa_action' = Agent_choose_action(sa_Q, b, u).action
         /\ explored' = b
  /\ ops' = <<"choose_action">>
  /\ UNCHANGED <<sa_Q, sa_counts, hist>>
  /\ AgentFrame

AgentUpdate ==
  /\ pc = "agent_harness"
  /\ TotalLen(hist, 0) < MaxUpdates
  /\ \E a \in Actions, r \in HarnessRewards :
       /\ LET n == SampleAverageAgent_update(sa_Q, sa_counts, a, r)
          IN  sa_Q' = n.Q /\ sa_counts' = n.counts
       /\ hist' = [hist EXCEPT ![a] = Append(@, r)]
  /\ ops' = <<"update">>
  /\ sa_action' = NoAction
  /\ explored' = FALSE
  /\ AgentFrame

AgentReset ==
  /\ pc = "agent_harness"
  /\ LET n == SampleAverageAgent_reset(sa_Q, sa_counts)
     IN  sa_Q' = n.Q /\ sa_counts' = n.counts
  /\ hist' = [a \in Actions |-> <<>>]
  /\ ops' = <<"reset">>
  /\ sa_action' = NoAction
  /\ explored' = FALSE
  /\ AgentFrame

NextAgent == AgentChoose \/ AgentUpdate \/ AgentReset

SpecAgent == InitAgent /\ [][NextAgent]_vars

(***************************************************************************)
(* Bandit harness: random_walk, reset and optimal_action in any order;     *)
(* step counts the walks made.                                             *)
(***************************************************************************)
HarnessWalkNoise == {<<-1, 1>>, Zero, One}

InitBandit ==
  /\ pc = "bandit_harness"
  /\ num_runs = 1 /\ num_steps = 1
  /\ Constructed(<<1, 10>>)
  /\ sa_rewards = [t \in Steps |-> Zero]
  /\ css_rewards = [t \in Steps |-> Zero]
  /\ sa_optimal = [t \in Steps |-> Zero]
  /\ css_optimal = [t \in Steps |-> Zero]
  /\ Idle

BanditFrame ==
  UNCHANGED <<pc, sizeVars, run, i, agentVars, accVars, sa_action, sa_reward,
              css_action, css_reward, ioVars, calls, draws, q_walked, samples,
              hist, explored>>

LastTwo(s) == IF Len(s) <= 2 THEN s ELSE SubSeq(s, Len(s) - 1, Len(s))

BanditWalk ==
  /\ pc = "bandit_harness"
  /\ step < MaxWalks
  /\ \E noise \in [Actions -> HarnessWalkNoise] :
       q_true' = Bandit_random_walk(q_true, noise)
  /\ step' = step + 1
  /\ optimal_action' = NoAction
  /\ ops' = LastTwo(Append(ops, "random_walk"))
  /\ BanditFrame

BanditResetCall ==
  /\ pc = "bandit_harness"
  /\ q_true' = Bandit_reset(q_true)
  /\ optimal_action' = NoAction
  /\ ops' = LastTwo(Append(ops, "reset"))
  /\ UNCHANGED step
  /\ BanditFrame

BanditOptimal ==
  /\ pc = "bandit_harness"
  /\ optimal_action' = Bandit_optimal_action(q_true)
  /\ ops' = LastTwo(Append(ops, "optimal_action"))
  /\ UNCHANGED <<q_true, step>>
  /\ BanditFrame

NextBandit == BanditWalk \/ BanditResetCall \/ BanditOptimal

SpecBandit == InitBandit /\ [][NextBandit]_vars

(***************************************************************************)
(* Properties.                                                             *)
(***************************************************************************)
\* a is the lowest index at which v is maximal
IsLowestArgmax(v, a) ==
  /\ a \in Actions
  /\ \A j \in Actions : ~RatLess(v[a], v[j])
  /\ \A j \in Actions : j < a => RatLess(v[j], v[a])

RECURSIVE SeqSum(_)
SeqSum(sq) == IF sq = <<>> THEN Zero ELSE RatAdd(Head(sq), SeqSum(Tail(sq)))

Mean(sq) == IF sq = <<>> THEN Zero ELSE RatDiv(SeqSum(sq), FromInt(Len(sq)))

ChoseLast == ops # <<>> /\ ops[Len(ops)] = "choose_action"

\* C1: an agent constructed with epsilon = 0 never takes the uniform-random
\* branch of choose_action(); the call returns the lowest index at which Q is
\* maximal.
C1_GreedyWhenEpsilonZero ==
  (pc = "agent_harness" /\ ChoseLast /\ epsilon.sa = Zero)
    => (~explored /\ IsLowestArgmax(sa_Q, sa_action))

CallsOf(name, t) == {n \in DOMAIN calls : calls[n] = <<name, t>>}
Before(n, name, t) == \E m \in DOMAIN calls : m < n /\ calls[m] = <<name, t>>

AfterWalkPcs == {"optimal_action", "sa_choose", "sa_get_reward", "sa_update",
                 "sa_accumulate", "css_choose", "css_get_reward", "css_update",
                 "css_accumulate"}
AfterOptimalPcs == AfterWalkPcs \ {"optimal_action"}
BodyPcs == AfterWalkPcs \cup {"random_walk"}

\* C2: in every repetition the three resets come before any random_walk();
\* random_walk() is called once per timestep and before any get_reward() of
\* the timestep; the best action is recorded after the walk and before either
\* agent chooses, and stays the lowest argmax of the walked means, which stay
\* unchanged, until both agents have been scored against that same action.
C2_CallOrder ==
  /\ \A n \in DOMAIN calls :
       LET name == calls[n][1]
           t == calls[n][2]
       IN  /\ name = "random_walk" =>
                /\ Before(n, "bandit.reset", -1)
                /\ Before(n, "sa.reset", -1)
                /\ Before(n, "css.reset", -1)
           /\ name \in {"sa.get_reward", "css.get_reward"} =>
                Before(n, "random_walk", t)
           /\ name = "optimal_action" => Before(n, "random_walk", t)
           /\ name \in {"sa.choose_action", "css.choose_action"} =>
                Before(n, "optimal_action", t)
  /\ \A t \in Steps :
       /\ Cardinality(CallsOf("random_walk", t)) <= 1
       /\ (pc \in BodyPcs \cup {"for_step"} /\ t < step) =>
             Cardinality(CallsOf("random_walk", t)) = 1
       /\ (pc \in AfterWalkPcs /\ t = step) =>
             Cardinality(CallsOf("random_walk", t)) = 1
  /\ pc \in AfterWalkPcs => q_true = q_walked
  /\ pc \in AfterOptimalPcs => IsLowestArgmax(q_walked, optimal_action)
  /\ \A m \in DOMAIN samples : \A n \in DOMAIN samples :
       (samples[m].run = samples[n].run /\ samples[m].step = samples[n].step)
         => samples[m].best = samples[n].best
  /\ pc = "css_accumulate" => samples[Len(samples)].best = optimal_action

C2_Witness ==
  /\ pc = "css_accumulate"
  /\ run = 1
  /\ optimal_action = 1
  /\ Cardinality(CallsOf("random_walk", step)) = 1

Draw(k, who) == [kind |-> k, by |-> who]
IsPrefix(sq, full) ==
  /\ Len(sq) <= Len(full)
  /\ \A n \in DOMAIN sq : sq[n] = full[n]

\* C3 as stated: in a timestep the walk draws come first and no reward draw
\* comes before an exploration/action draw.
C3_RewardDrawsLast ==
  \A m \in DOMAIN draws : \A n \in DOMAIN draws :
    m < n =>
      /\ ~(draws[m].kind = "reward" /\ draws[n].kind \in {"bern", "unif"})
      /\ ~(draws[m].kind # "walk" /\ draws[n].kind = "walk")

ChooseDraws == {<<"bern">>, <<"bern", "unif">>}
TimestepDraws ==
  { [n \in 1..K |-> Draw("walk", "bandit")]
      \o Tag(a, "sa") \o <<Draw("reward", "sa")>>
      \o Tag(b, "css") \o <<Draw("reward", "css")>> :
    a \in ChooseDraws, b \in ChooseDraws }

\* C3 amended: in a timestep the draws are the K walk draws, then the
\* sample-average agent's bernoulli draw (and its uniform draw when it
\* explores), then its reward draw, then the same for the constant-step
\* agent; the timestep is complete when the constant-step reward is drawn.
C3_DrawOrderPerAgent ==
  /\ \E full \in TimestepDraws : IsPrefix(draws, full)
  /\ pc \in {"css_update", "css_accumulate"} => draws \in TimestepDraws
  /\ pc = "sa_update" => draws[Len(draws)] = Draw("reward", "sa")

C3_Witness ==
  /\ pc = "css_update"
  /\ \E n \in DOMAIN draws : draws[n] = Draw("unif", "css")
  /\ \E n \in DOMAIN draws : draws[n] = Draw("unif", "sa")

NoOutput(f) == f.header = "" /\ f.rows = <<>>

\* C4: when either output file cannot be created the run is fatal: nothing
\* is written to the other table, no success marker is printed and the exit
\* status is not 0.
C4_FatalOnFileFailure ==
  (reward_file.state = "fail" \/ optimal_file.state = "fail")
    => /\ NoOutput(reward_file) /\ NoOutput(optimal_file)
       /\ stdout = <<>>
       /\ exit_status # 0

SamplesOf(who, t) == SelectSeq(samples, LAMBDA x : x.agent = who /\ x.step = t)

OneByOneDone ==
  /\ pc = "done" /\ num_runs = 1 /\ num_steps = 1
  /\ reward_file.state = "open" /\ optimal_file.state = "open"

Percent(b) == IF b THEN Hundred ELSE Zero

\* C5 as stated: with R = 1 and T = 1 each table has the single row 0; the
\* reward values are the rewards drawn and the percentages are 100 exactly
\* for an agent that chose action 0.
C5_SingleRowBestIsZero ==
  OneByOneDone =>
    LET sa == SamplesOf("sa", 0)[1]
        css == SamplesOf("css", 0)[1]
    IN  /\ reward_file.rows = <<<<0, sa.reward, css.reward>>>>
        /\ optimal_file.rows =
             <<<<0, Percent(sa.action = 0), Percent(css.action = 0)>>>>

\* v is x rounded to Precision significant decimal digits
IsRounded(x, v) ==
  \/ x = Zero /\ v = Zero
  \/ /\ x # Zero
     /\ LET e == Exponent10(<<Abs(x[1]), x[2]>>)
            sc == Scale10(v, Precision - 1 - e)
            d == RatSub(v, x)
            twice == <<2 * Abs(d[1]), d[2]>>
        IN  /\ sc[2] = 1
            /\ Abs(sc[1]) >= Pow10(Precision - 1)
            /\ Abs(sc[1]) <= Pow10(Precision)
            /\ ~RatLess(Scale10(One, e - (Precision - 1)), twice)

\* C5 amended: with R = 1, T = 1 and both files created, each table has the
\* single row 0; the reward values are the rewards drawn, rounded to 6
\* significant digits, and the percentages are 100 exactly for an agent
\* whose action is the lowest argmax of the true means after the walk.
C5_SingleRowBestAfterWalk ==
  OneByOneDone =>
    LET sa == SamplesOf("sa", 0)[1]
        css == SamplesOf("css", 0)[1]
    IN  /\ Len(reward_file.rows) = 1 /\ Len(optimal_file.rows) = 1
        /\ reward_file.rows[1][1] = 0 /\ optimal_file.rows[1][1] = 0
        /\ IsRounded(sa.reward, reward_file.rows[1][2])
        /\ IsRounded(css.reward, reward_file.rows[1][3])
        /\ optimal_file.rows[1][2] = Percent(IsLowestArgmax(q_true, sa.action))
        /\ optimal_file.rows[1][3] = Percent(IsLowestArgmax(q_true, css.action))

C5_Witness ==
  /\ OneByOneDone
  /\ ~IsLowestArgmax(q_true, 0)
  /\ SamplesOf("sa", 0)[1].action = 0
  /\ SamplesOf("css", 0)[1].action = 1
  /\ reward_file.rows[1][2] # SamplesOf("sa", 0)[1].reward

RECURSIVE RewardSum(_)
RewardSum(sq) ==
  IF sq = <<>> THEN Zero ELSE RatAdd(Head(sq).reward, RewardSum(Tail(sq)))

HitCount(sq) == Len(SelectSeq(sq, LAMBDA x : x.action = x.best))

NormalizedPcs == {"open_files", "write_header", "for_i", "print", "done"}

AccumulatorsAre(who, rewards, optimal) ==
  \A t \in Steps :
    LET sq == SamplesOf(who, t)
    IN  IF pc \in NormalizedPcs
        THEN /\ Len(sq) = num_runs
             /\ rewards[t] = RatDiv(RewardSum(sq), FromInt(num_runs))
             /\ optimal[t] = Rat(100 * HitCount(sq), num_runs)
             /\ \A v \in {sq[n].reward : n \in DOMAIN sq} :
                  (\A n \in DOMAIN sq : sq[n].reward = v) => rewards[t] = v
        ELSE /\ rewards[t] = RewardSum(sq)
             /\ optimal[t] = FromInt(HitCount(sq))

\* C6: until the end of the repetitions every accumulator is the running sum
\* of all samples of its timestep (it is never reset); afterwards the reward
\* value at (t, agent) is the sum of the agent's rewards at t over the R
\* repetitions divided by R (so v when every repetition gave v) and the hit
\* value is 100 * (repetitions whose action was the recorded best) / R.
C6_Aggregation ==
  /\ AccumulatorsAre("sa", sa_rewards, sa_optimal)
  /\ AccumulatorsAre("css", css_rewards, css_optimal)

C6_Witness ==
  /\ pc = "done" /\ num_runs = 2
  /\ sa_optimal[0] = <<50, 1>>
  /\ css_optimal[0] = Hundred
  /\ sa_rewards[0] = <<-1, 3>>
  /\ SamplesOf("css", 0)[1].reward = SamplesOf("css", 0)[2].reward

\* C7: counts[a] is the number of updates of a since the last reset and Q[a]
\* is the mean of their rewards (0 if none): r after one update with reward
\* r, and r after any number of updates with the same r; an update of one
\* action leaves the others at the mean of their own rewards.
C7_RunningMean ==
  pc = "agent_harness" =>
    \A a \in Actions :
      /\ sa_counts[a] = Len(hist[a])
      /\ sa_Q[a] = Mean(hist[a])
      /\ Len(hist[a]) = 1 => sa_Q[a] = hist[a][1]
      /\ \A r \in HarnessRewards :
           (hist[a] # <<>> /\ \A n \in DOMAIN hist[a] : hist[a][n] = r)
             => sa_Q[a] = r

C7_Witness ==
  /\ pc = "agent_harness"
  /\ hist[0] = <<<<2, 1>>>>
  /\ Len(hist[1]) = 3
  /\ sa_Q[1] = <<1, 2>>
  /\ hist[1][1] # hist[1][2]

\* C8: optimal_action() returns the lowest index holding the maximum true
\* mean, and 0 when called right after reset().
C8_OptimalIsLowestArgmax ==
  (pc = "bandit_harness" /\ ops # <<>> /\ ops[Len(ops)] = "optimal_action")
    => /\ IsLowestArgmax(q_true, optimal_action)
       /\ ops = <<"reset", "optimal_action">> => optimal_action = 0

C8_Witness ==
  /\ pc = "bandit_harness"
  /\ ops = <<"random_walk", "optimal_action">>
  /\ q_true[K - 1] = q_true[K - 2]
  /\ q_true[K - 1] # Zero
  /\ optimal_action = K - 2

\* C9: every action passed to get_reward and to update in run_exp is an
\* index of an arm, whichever branch of choose_action produced it.
C9_ActionInRange ==
  /\ pc \in {"sa_get_reward", "sa_update", "sa_accumulate"} => sa_action \in Actions
  /\ pc \in {"css_get_reward", "css_update", "css_accumulate"} => css_action \in Actions
  /\ \A n \in DOMAIN samples : samples[n].action \in Actions

C9_Witness ==
  /\ pc = "css_update"
  /\ css_action = K - 1
  /\ sa_action = 0
  /\ Draw("unif", "css") \in {draws[n] : n \in DOMAIN draws}
  /\ Draw("unif", "sa") \notin {draws[n] : n \in DOMAIN draws}

RepetitionStart == pc = "for_step" /\ step = 0 /\ Len(calls) = 3

\* C10: after the three resets of a repetition the true means, both agents'
\* estimates and the visitation counts are as constructed and no loop local
\* is live; a second reset() of the bandit or of either agent changes
\* nothing.
C10_RepetitionIsolation ==
  /\ RepetitionStart =>
       /\ q_true = ZeroVec
       /\ sa_Q = ZeroVec
       /\ sa_counts = [a \in Actions |-> 0]
       /\ css_Q = ZeroVec
       /\ optimal_action = NoAction
       /\ sa_action = NoAction /\ css_action = NoAction
  /\ pc \notin {"agent_harness", "bandit_harness"} =>
       /\ Bandit_reset(Bandit_reset(q_true)) = Bandit_reset(q_true)
       /\ Agent_reset(Agent_reset(css_Q)) = Agent_reset(css_Q)
       /\ LET once == SampleAverageAgent_reset(sa_Q, sa_counts)
          IN  SampleAverageAgent_reset(once.Q, once.counts) = once

C10_Witness ==
  /\ RepetitionStart
  /\ run = 1
  /\ sa_rewards[0] # Zero
  /\ css_rewards[0] # Zero

====
